---- MODULE Spec2Model ----
(***************************************************************************)
(* Model of the posts router (src/routes/api/post.js): create-post,        *)
(* list-all, list-by-owner, delete-post, like, unlike, add-comment and     *)
(* delete-comment over the Post repository.                                *)
(*                                                                         *)
(* A handler that changes the store is split at its awaits: every          *)
(* repository call is one step and the steps of different requests         *)
(* interleave.                                                             *)
(*                                                                         *)
(* Spec       : requests interleave at their repository calls.             *)
(* SeqSpec    : a request starts only when no other request is in flight.  *)
(* StoredSpec : as Spec, started over a store that already holds a post    *)
(*              with comments.                                             *)
(***************************************************************************)
EXTENDS Integers, Sequences, FiniteSets, TLC

\* ---------------------------------------------------------------- bounds
MaxPosts == 2
MaxComments == 3
MaxReqs == 2
MaxRequests == 4
StoredRequests == 2

\* ------------------------------------------------------------- constants
Users == {"A", "B", "C"}
BadId == 0                      \* a malformed identifier (not an ObjectId)
BadUser == "bad"                \* a malformed user identifier
ValidText == "hello"
Texts == {ValidText, ""}
PostIds == 1..MaxPosts
CommentIds == 1..MaxComments
Faults == {"none", "db", "nouser"}

VARIABLES posts, order, removed, nextPid, nextCid, last, liked, reqs, arrived
vars == <<posts, order, removed, nextPid, nextCid, last, liked, reqs, arrived>>

\* ------------------------------------------------------- pure operators
UserName(u) == "name-" \o u
UserAvatar(u) == "avatar-" \o u

RemoveAt(s, i) == [j \in 1..(Len(s) - 1) |-> IF j < i THEN s[j] ELSE s[j + 1]]

\* Array.prototype.splice(index, 1) with a 0-based index; -1 counts from the end
Splice1(s, index) ==
    LET start == IF index < 0 THEN (IF Len(s) + index < 0 THEN 0 ELSE Len(s) + index)
                 ELSE index
    IN IF start >= Len(s) THEN s ELSE RemoveAt(s, start + 1)

\* Array.prototype.indexOf: 0-based index of the first occurrence, or -1
IndexOf(s, e) ==
    IF \E i \in 1..Len(s) : s[i] = e
    THEN (CHOOSE i \in 1..Len(s) : s[i] = e /\ \A j \in 1..(i - 1) : s[j] # e) - 1
    ELSE -1

\* Array.prototype.unshift
Unshift(s, e) == <<e>> \o s

CountLikes(likes, u) == Cardinality({i \in 1..Len(likes) : likes[i].user = u})

\* mutant of verifyLike: only the newest like is compared
verifyLike_FirstOnly(likes, u) == Len(likes) > 0 /\ likes[1].user = u

\* post.likes.filter(verifyLike).length > 0
verifyLike(likes, u) == CountLikes(likes, u) > 0

\* mutant of notLikedByUser: tests for an empty array instead of the user's entry
notLikedByUser_EmptyOnly(likes, u) == Len(likes) = 0

\* post.likes.filter(like => like.user.toString() === req.user.id).length === 0
notLikedByUser(likes, u) == CountLikes(likes, u) = 0

\* post.likes.find(likedId => req.user.id): the predicate ignores its argument
\* and returns the (non-empty, truthy) acting id, so find yields the first
\* element of the array.
userLike(likes, u) == likes[1]

\* mutant of likeIndex: indexOf misses and yields -1, so splice drops the last entry
likeIndex_Missed(likes, u) == -1

likeIndex(likes, u) == IndexOf(likes, userLike(likes, u))

\* mutant of LikePost: push instead of unshift
LikePost_Push(post, u) == [post EXCEPT !.likes = Append(post.likes, [user |-> u])]

LikePost(post, u) == [post EXCEPT !.likes = Unshift(post.likes, [user |-> u])]

UnlikePost(post, u) == [post EXCEPT !.likes = Splice1(post.likes, likeIndex(post.likes, u))]

HasComment(comments, cid) == \E i \in 1..Len(comments) : comments[i].id = cid

\* post.comments.find(comment => comment.id === commentId)
userComment(comments, cid) ==
    comments[CHOOSE i \in 1..Len(comments) :
                 comments[i].id = cid /\ \A j \in 1..(i - 1) : comments[j].id # cid]

\* mutant of commentIndex: the index is not looked up, the first comment goes
commentIndex_First(comments, cid) == 0

commentIndex(comments, cid) == IndexOf(comments, userComment(comments, cid))

\* mutant of NotAuthorized: || instead of &&
NotAuthorized_Or(post, cid, u) ==
    LET ownerOfPost == post.user
        ownerOfComment == userComment(post.comments, cid).user
    IN ownerOfPost # u \/ ownerOfComment # u

\* ownerOfPost !== user.id && ownerOfComment !== req.user.id
NotAuthorized(post, cid, u) ==
    LET ownerOfPost == post.user
        ownerOfComment == userComment(post.comments, cid).user
    IN ownerOfPost # u /\ ownerOfComment # u

\* mutant of notOwner: the ownership check is dropped
notOwner_Never(post, u) == FALSE

\* post.user.toString() !== req.user.id
notOwner(post, u) == post.user # u

NewPost(u, text, date) ==
    [text |-> text, name |-> UserName(u), avatar |-> UserAvatar(u), user |-> u,
     date |-> date, likes |-> <<>>, comments |-> <<>>]

NewComment(u, text, cid) ==
    [id |-> cid, user |-> u, name |-> UserName(u), text |-> text,
     avatar |-> UserAvatar(u)]

\* ------------------------------------------------------------ repository
Stored(pid) == pid \in DOMAIN posts

\* The Post repository is not part of this source; its save is taken from the
\* specification: "save (insert/update)", and every mutation is
\* "read-entire-document -> modify in memory -> write-entire-document, i.e.,
\* no partial/field-level update and no optimistic concurrency check".
\* await newPost.save() of a document constructed by the handler: insert
Save(store, pid, doc) ==
    [i \in (DOMAIN store) \cup {pid} |-> IF i = pid THEN doc ELSE store[i]]

Remove(store, pid) == [i \in (DOMAIN store) \ {pid} |-> store[i]]

RECURSIVE SortByDateDesc(_, _)
SortByDateDesc(store, ids) ==
    IF ids = {} THEN <<>>
    ELSE LET m == CHOOSE i \in ids : \A j \in ids : store[j].date <= store[i].date
         IN <<m>> \o SortByDateDesc(store, ids \ {m})

\* Post.find(filter) without a sort: the stored documents in the order they
\* were inserted
InsertionOrder(ids) == SelectSeq(order, LAMBDA i : i \in ids)

\* ------------------------------------------------------------- responses
NoResponse == 0

\* The answer given by the step that led to the current state (NoRequest when
\* that step suspended its handler at an await without answering).
\* raised is the kind of exception thrown inside the handler's try block
\* ("cast" is the malformed-identifier shape, err.kind === 'ObjectId').
\* follows and pre are history: follows says that an unlike was the next
\* request on its post after a successful like by the same user, and pre is
\* then the post's likes before that like.
Reply(op, u, pid, cid, raised, status, result) ==
    [op |-> op, user |-> u, pid |-> pid, cid |-> cid, raised |-> raised,
     status |-> status, result |-> result, pre |-> <<>>, follows |-> FALSE]

\* liked[pid] remembers whether the most recent request on post pid was a
\* successful like, by whom, and the likes before it (history only; no handler
\* reads it).
NoLike == [on |-> FALSE, user |-> "none", pre |-> <<>>]

Touch(pid, rec) == IF pid \in PostIds THEN [liked EXCEPT ![pid] = rec] ELSE liked

FollowsLike(u, pid) == pid \in PostIds /\ liked[pid].on /\ liked[pid].user = u

UnlikeReply(u, pid, raised, status) ==
    [Reply("unlike", u, pid, 0, raised, status, <<>>) EXCEPT
        !.follows = FollowsLike(u, pid),
        !.pre = IF FollowsLike(u, pid) THEN liked[pid].pre ELSE <<>>]

NoRequest == Reply("none", "none", 0, 0, "none", NoResponse, <<>>)

\* findById found no document (null)
NoDoc == NewPost("none", "", 0)

\* A request in flight: pc is the await the handler is suspended at, seen the
\* document as findById returned it, doc the handler's in-memory copy.
IdleReq == [pc |-> "idle", op |-> "none", user |-> "none", pid |-> 0, cid |-> 0,
            seen |-> NoDoc, doc |-> NoDoc]

InFlight(pc, op, u, pid, cid, seen, doc) ==
    [pc |-> pc, op |-> op, user |-> u, pid |-> pid, cid |-> cid, seen |-> seen, doc |-> doc]

\* const post = await Post.findById(...)
FindById(pid) == IF Stored(pid) THEN posts[pid] ELSE NoDoc

Init ==
    /\ posts = <<>>
    /\ nextPid = 1
    /\ nextCid = 1
    /\ last = NoRequest
    /\ liked = [p \in PostIds |-> NoLike]
    /\ order = <<>>
    /\ removed = {}
    /\ reqs = [r \in 1..MaxReqs |-> IdleReq]
    /\ arrived = 0

\* --------------------------------------------------------------- handlers
\* The handler of an arriving request takes the first slot not in use.
FreeSlot(r) == reqs[r].pc = "idle" /\ \A q \in 1..(r - 1) : reqs[q].pc # "idle"

\* A request arrives (the number of requests handled is capped).
Arrive ==
    /\ arrived < MaxRequests
    /\ arrived' = arrived + 1

\* router.get('/'): the handler does not read the acting user
ListAll(f) ==
    /\ Arrive
    /\ f \in {"none", "db"}
    /\ IF f = "db"
       THEN last' = Reply("list", "none", 0, 0, "other", 500, <<>>)
       ELSE last' = Reply("list", "none", 0, 0, "none", 200, SortByDateDesc(posts, DOMAIN posts))
    /\ UNCHANGED <<posts, order, removed, nextPid, nextCid, liked, reqs>>

\* router.get('/myposts/:userID'): the handler does not read the acting user
ListByOwner(target, f) ==
    /\ Arrive
    /\ f \in {"none", "db"}
    /\ target = BadUser => f = "none"
    /\ IF target = BadUser
       THEN last' = Reply("myposts", "none", 0, 0, "cast", 404, <<>>)
       ELSE IF f = "db"
       THEN last' = Reply("myposts", "none", 0, 0, "other", NoResponse, <<>>)
       ELSE last' = Reply("myposts", "none", 0, 0, "none", 200,
                          InsertionOrder({i \in DOMAIN posts : posts[i].user = target}))
    /\ UNCHANGED <<posts, order, removed, nextPid, nextCid, liked, reqs>>

\* The handler of slot r answers and ends.
Done(r, reply) ==
    /\ last' = reply
    /\ reqs' = [reqs EXCEPT ![r] = IdleReq]

\* The handler of slot r suspends at its next await.
Await(r, req) ==
    /\ reqs' = [reqs EXCEPT ![r] = req]
    /\ last' = NoRequest

\* router.post('/'): validation, await User.findById and new Post({...}); the
\* document gets its id and its date when it is constructed
CreateUser(r, u, text, f) ==
    /\ Arrive
    /\ FreeSlot(r)
    /\ nextPid <= MaxPosts
    /\ text = "" => f = "none"
    /\ IF text = ""
       THEN /\ Done(r, Reply("create", u, 0, 0, "none", 400, <<>>))
            /\ UNCHANGED nextPid
       ELSE IF f # "none"
       THEN /\ Done(r, Reply("create", u, 0, 0, "other", 500, <<>>))
            /\ UNCHANGED nextPid
       ELSE /\ Await(r, InFlight("save", "create", u, nextPid, 0, NoDoc,
                                 NewPost(u, text, nextPid)))
            /\ nextPid' = nextPid + 1
    /\ UNCHANGED <<posts, order, removed, nextCid, liked>>

\* router.post('/'): await newPost.save() and the answer
CreateSave(r, f) ==
    /\ UNCHANGED arrived
    /\ reqs[r].pc = "save"
    /\ reqs[r].op = "create"
    /\ f \in {"none", "db"}
    /\ IF f = "db"
       THEN /\ Done(r, Reply("create", reqs[r].user, 0, 0, "other", 500, <<>>))
            /\ UNCHANGED <<posts, order>>
       ELSE /\ posts' = Save(posts, reqs[r].pid, reqs[r].doc)
            /\ order' = Append(order, reqs[r].pid)
            /\ Done(r, Reply("create", reqs[r].user, reqs[r].pid, 0, "none", 200, <<>>))
    /\ UNCHANGED <<removed, nextPid, nextCid, liked>>

\* await post.save() of a document returned by findById: update, the stored
\* document is replaced as a whole by the handler's copy; an update of an id
\* that is no longer stored changes nothing (an update does not insert)
Persist(pid, doc) == IF Stored(pid) THEN Save(posts, pid, doc) ELSE posts

\* router.delete('/myposts/:postID'): await Post.findById and the checks
DeleteFetch(r, u, pid, f) ==
    /\ Arrive
    /\ FreeSlot(r)
    /\ f \in {"none", "db"}
    /\ pid = BadId => f = "none"
    /\ IF pid = BadId
       THEN Done(r, Reply("delete", u, pid, 0, "cast", 404, <<>>))
       ELSE IF f = "db" \/ ~Stored(pid)
       THEN Done(r, Reply("delete", u, pid, 0, "other", NoResponse, <<>>))
       ELSE IF notOwner(FindById(pid), u)
       THEN Done(r, Reply("delete", u, pid, 0, "none", 401, <<>>))
       ELSE Await(r, InFlight("remove", "delete", u, pid, 0, FindById(pid), FindById(pid)))
    /\ liked' = Touch(pid, NoLike)
    /\ UNCHANGED <<posts, order, removed, nextPid, nextCid>>

\* router.delete('/myposts/:postID'): await post.remove() and the answer
DeleteRemove(r, f) ==
    /\ UNCHANGED arrived
    /\ reqs[r].pc = "remove"
    /\ f \in {"none", "db"}
    /\ IF f = "db"
       THEN /\ Done(r, Reply("delete", reqs[r].user, reqs[r].pid, 0, "other", NoResponse, <<>>))
            /\ UNCHANGED <<posts, order, removed>>
       ELSE /\ posts' = Remove(posts, reqs[r].pid)
            /\ order' = SelectSeq(order, LAMBDA i : i # reqs[r].pid)
            /\ removed' = removed \cup {reqs[r].pid}
            /\ Done(r, Reply("delete", reqs[r].user, reqs[r].pid, 0, "none", 200, <<>>))
    /\ liked' = Touch(reqs[r].pid, NoLike)
    /\ UNCHANGED <<nextPid, nextCid>>

\* router.put('/like/:postID'): await Post.findById, the check and unshift
LikeFetch(r, u, pid, f) ==
    /\ Arrive
    /\ FreeSlot(r)
    /\ f \in {"none", "db"}
    /\ pid = BadId => f = "none"
    /\ IF pid = BadId
       THEN Done(r, Reply("like", u, pid, 0, "cast", 500, <<>>))
       ELSE IF f = "db" \/ ~Stored(pid)
       THEN Done(r, Reply("like", u, pid, 0, "other", 500, <<>>))
       ELSE IF verifyLike(FindById(pid).likes, u)
       THEN Done(r, Reply("like", u, pid, 0, "none", 400, <<>>))
       ELSE Await(r, InFlight("save", "like", u, pid, 0, FindById(pid),
                              LikePost(FindById(pid), u)))
    /\ liked' = Touch(pid, NoLike)
    /\ UNCHANGED <<posts, order, removed, nextPid, nextCid>>

\* router.put('/like/:postID'): await post.save() and the answer
LikeSave(r, f) ==
    /\ UNCHANGED arrived
    /\ reqs[r].pc = "save"
    /\ reqs[r].op = "like"
    /\ f \in {"none", "db"}
    /\ IF f = "db"
       THEN /\ Done(r, Reply("like", reqs[r].user, reqs[r].pid, 0, "other", 500, <<>>))
            /\ liked' = Touch(reqs[r].pid, NoLike)
            /\ UNCHANGED posts
       ELSE /\ posts' = Persist(reqs[r].pid, reqs[r].doc)
            /\ Done(r, Reply("like", reqs[r].user, reqs[r].pid, 0, "none", 200, <<>>))
            /\ liked' = Touch(reqs[r].pid,
                              [on |-> TRUE, user |-> reqs[r].user, pre |-> reqs[r].seen.likes])
    /\ UNCHANGED <<order, removed, nextPid, nextCid>>

\* router.put('/unlike/:postID'): await Post.findById, the check and splice
UnlikeFetch(r, u, pid, f) ==
    /\ Arrive
    /\ FreeSlot(r)
    /\ f \in {"none", "db"}
    /\ pid = BadId => f = "none"
    /\ IF pid = BadId
       THEN /\ Done(r, UnlikeReply(u, pid, "cast", 500))
            /\ liked' = Touch(pid, NoLike)
       ELSE IF f = "db" \/ ~Stored(pid)
       THEN /\ Done(r, UnlikeReply(u, pid, "other", 500))
            /\ liked' = Touch(pid, NoLike)
       ELSE IF notLikedByUser(FindById(pid).likes, u)
       THEN /\ Done(r, UnlikeReply(u, pid, "none", 400))
            /\ liked' = Touch(pid, NoLike)
       ELSE /\ Await(r, InFlight("save", "unlike", u, pid, 0, FindById(pid),
                                 UnlikePost(FindById(pid), u)))
            /\ liked' = IF FollowsLike(u, pid) THEN liked ELSE Touch(pid, NoLike)
    /\ UNCHANGED <<posts, order, removed, nextPid, nextCid>>

\* router.put('/unlike/:postID'): await post.save() and the answer
UnlikeSave(r, f) ==
    /\ UNCHANGED arrived
    /\ reqs[r].pc = "save"
    /\ reqs[r].op = "unlike"
    /\ f \in {"none", "db"}
    /\ IF f = "db"
       THEN /\ Done(r, UnlikeReply(reqs[r].user, reqs[r].pid, "other", 500))
            /\ UNCHANGED posts
       ELSE /\ posts' = Persist(reqs[r].pid, reqs[r].doc)
            /\ Done(r, UnlikeReply(reqs[r].user, reqs[r].pid, "none", 200))
    /\ liked' = Touch(reqs[r].pid, NoLike)
    /\ UNCHANGED <<order, removed, nextPid, nextCid>>

\* router.post('/comment/:postID'): validation and await Post.findById
CommentFetch(r, u, pid, text, f) ==
    /\ Arrive
    /\ FreeSlot(r)
    /\ nextCid <= MaxComments
    /\ f \in {"none", "db"}
    /\ (text = "" \/ pid = BadId) => f = "none"
    /\ IF text = ""
       THEN Done(r, Reply("comment", u, pid, 0, "none", 400, <<>>))
       ELSE IF pid = BadId
       THEN Done(r, Reply("comment", u, pid, 0, "cast", 500, <<>>))
       ELSE IF f = "db"
       THEN Done(r, Reply("comment", u, pid, 0, "other", 500, <<>>))
       ELSE Await(r, InFlight("user", "comment", u, pid, 0, FindById(pid), FindById(pid)))
    /\ liked' = Touch(pid, NoLike)
    /\ UNCHANGED <<posts, order, removed, nextPid, nextCid>>

\* router.post('/comment/:postID'): await User.findById, newComment and unshift
CommentUser(r, f) ==
    /\ UNCHANGED arrived
    /\ reqs[r].pc = "user"
    /\ reqs[r].op = "comment"
    /\ IF f # "none" \/ reqs[r].seen = NoDoc
       THEN /\ Done(r, Reply("comment", reqs[r].user, reqs[r].pid, 0, "other", 500, <<>>))
            /\ UNCHANGED nextCid
       ELSE /\ nextCid <= MaxComments
            /\ Await(r, [reqs[r] EXCEPT
                   !.pc = "save",
                   !.cid = nextCid,
                   !.doc = [reqs[r].seen EXCEPT
                               !.comments = Unshift(@, NewComment(reqs[r].user, ValidText, nextCid))]])
            /\ nextCid' = nextCid + 1
    /\ liked' = Touch(reqs[r].pid, NoLike)
    /\ UNCHANGED <<posts, order, removed, nextPid>>

\* router.post('/comment/:postID'): await post.save() and the answer
CommentSave(r, f) ==
    /\ UNCHANGED arrived
    /\ reqs[r].pc = "save"
    /\ reqs[r].op = "comment"
    /\ f \in {"none", "db"}
    /\ IF f = "db"
       THEN /\ Done(r, Reply("comment", reqs[r].user, reqs[r].pid, 0, "other", 500, <<>>))
            /\ UNCHANGED posts
       ELSE /\ posts' = Persist(reqs[r].pid, reqs[r].doc)
            /\ Done(r, Reply("comment", reqs[r].user, reqs[r].pid, reqs[r].cid, "none", 200, <<>>))
    /\ liked' = Touch(reqs[r].pid, NoLike)
    /\ UNCHANGED <<order, removed, nextPid, nextCid>>

\* router.delete('/delete_comment/:postID/:comment_id'): await Post.findById
\* and post.comments.find
UncommentFetch(r, u, pid, cid, f) ==
    /\ Arrive
    /\ FreeSlot(r)
    /\ f \in {"none", "db"}
    /\ pid = BadId => f = "none"
    /\ IF pid = BadId
       THEN Done(r, Reply("uncomment", u, pid, cid, "cast", 404, <<>>))
       ELSE IF f = "db" \/ ~Stored(pid)
       THEN Done(r, Reply("uncomment", u, pid, cid, "other", NoResponse, <<>>))
       ELSE Await(r, InFlight("user", "uncomment", u, pid, cid, FindById(pid), FindById(pid)))
    /\ liked' = Touch(pid, NoLike)
    /\ UNCHANGED <<posts, order, removed, nextPid, nextCid>>

\* router.delete('/delete_comment/:postID/:comment_id'): await User.findById,
\* the checks and splice
UncommentUser(r, f) ==
    /\ UNCHANGED arrived
    /\ reqs[r].pc = "user"
    /\ reqs[r].op = "uncomment"
    /\ LET u == reqs[r].user
           pid == reqs[r].pid
           cid == reqs[r].cid
           post == reqs[r].seen
       IN IF f = "db"
          THEN Done(r, Reply("uncomment", u, pid, cid, "other", NoResponse, <<>>))
          ELSE IF ~HasComment(post.comments, cid)
          THEN Done(r, Reply("uncomment", u, pid, cid, "none", 404, <<>>))
          ELSE IF f = "nouser"
          THEN Done(r, Reply("uncomment", u, pid, cid, "other", NoResponse, <<>>))
          ELSE IF NotAuthorized(post, cid, u)
          THEN Done(r, Reply("uncomment", u, pid, cid, "none", 401, <<>>))
          ELSE Await(r, [reqs[r] EXCEPT
                  !.pc = "save",
                  !.doc = [post EXCEPT !.comments = Splice1(@, commentIndex(@, cid))]])
    /\ liked' = Touch(reqs[r].pid, NoLike)
    /\ UNCHANGED <<posts, order, removed, nextPid, nextCid>>

\* router.delete('/delete_comment/:postID/:comment_id'): await post.save() and
\* the answer; the catch block evaluates the undeclared name postID when the
\* fault is not a cast error, so nothing is answered then
UncommentSave(r, f) ==
    /\ UNCHANGED arrived
    /\ reqs[r].pc = "save"
    /\ reqs[r].op = "uncomment"
    /\ f \in {"none", "db"}
    /\ IF f = "db"
       THEN /\ Done(r, Reply("uncomment", reqs[r].user, reqs[r].pid, reqs[r].cid,
                             "other", NoResponse, <<>>))
            /\ UNCHANGED posts
       ELSE /\ posts' = Persist(reqs[r].pid, reqs[r].doc)
            /\ Done(r, Reply("uncomment", reqs[r].user, reqs[r].pid, reqs[r].cid,
                             "none", 200, <<>>))
    /\ liked' = Touch(reqs[r].pid, NoLike)
    /\ UNCHANGED <<order, removed, nextPid, nextCid>>

\* ---------------------------------------------------------- specifications
Slots == 1..MaxReqs
Params == PostIds \cup {BadId}

\* a request arrives and its handler runs up to its first await
Start ==
    \/ \E r \in Slots, u \in Users, text \in Texts, f \in Faults : CreateUser(r, u, text, f)
    \/ \E f \in Faults : ListAll(f)
    \/ \E target \in Users \cup {BadUser}, f \in Faults : ListByOwner(target, f)
    \/ \E r \in Slots, u \in Users, pid \in Params, f \in Faults : DeleteFetch(r, u, pid, f)
    \/ \E r \in Slots, u \in Users, pid \in Params, f \in Faults : LikeFetch(r, u, pid, f)
    \/ \E r \in Slots, u \in Users, pid \in Params, f \in Faults : UnlikeFetch(r, u, pid, f)
    \/ \E r \in Slots, u \in Users, pid \in Params, text \in Texts, f \in Faults :
           CommentFetch(r, u, pid, text, f)
    \/ \E r \in Slots, u \in Users, pid \in Params, cid \in CommentIds, f \in Faults :
           UncommentFetch(r, u, pid, cid, f)

\* a repository call of a request in flight returns and its handler resumes
Resume ==
    \/ \E r \in Slots, f \in Faults : CreateSave(r, f)
    \/ \E r \in Slots, f \in Faults : DeleteRemove(r, f)
    \/ \E r \in Slots, f \in Faults : LikeSave(r, f)
    \/ \E r \in Slots, f \in Faults : UnlikeSave(r, f)
    \/ \E r \in Slots, f \in Faults : CommentUser(r, f)
    \/ \E r \in Slots, f \in Faults : CommentSave(r, f)
    \/ \E r \in Slots, f \in Faults : UncommentUser(r, f)
    \/ \E r \in Slots, f \in Faults : UncommentSave(r, f)

Next == Start \/ Resume

Spec == Init /\ [][Next]_vars

\* The store outlives the process: the router starts over a store that holds
\* one post of A with StoredComments comments, as add-comment leaves them
\* (newest first, ids in the order of their creation). The authors range over
\* the users up to renaming of B and C. StoredRequests further requests are
\* handled.
StoredComments == MaxComments - 1

StoredAuthors ==
    {a \in [1..StoredComments -> Users] :
        \A i \in 1..StoredComments : a[i] = "C" => \E j \in 1..(i - 1) : a[j] = "B"}

StoredInit ==
    /\ \E a \in StoredAuthors :
          posts = (1 :> [NewPost("A", ValidText, 1) EXCEPT
                            !.comments = [i \in 1..StoredComments |->
                                NewComment(a[StoredComments + 1 - i], ValidText,
                                           StoredComments + 1 - i)]])
    /\ order = <<1>>
    /\ removed = {}
    /\ nextPid = 2
    /\ nextCid = StoredComments + 1
    /\ last = NoRequest
    /\ liked = [p \in PostIds |-> NoLike]
    /\ reqs = [r \in 1..MaxReqs |-> IdleReq]
    /\ arrived = MaxRequests - StoredRequests

StoredSpec == StoredInit /\ [][Next]_vars

NoneInFlight == \A r \in Slots : reqs[r].pc = "idle"

SeqNext == (NoneInFlight /\ Start) \/ Resume

SeqSpec == Init /\ [][SeqNext]_vars

\* ============================================================ properties
Liked(likes, u) == \E i \in 1..Len(likes) : likes[i].user = u
WithoutUser(likes, u) == SelectSeq(likes, LAMBDA l : l.user # u)
WithoutId(comments, cid) == SelectSeq(comments, LAMBDA c : c.id # cid)
CommentIdsOf(comments) == {comments[i].id : i \in 1..Len(comments)}
Among(comments, ids) == SelectSeq(comments, LAMBDA c : c.id \in ids)

\* the step is the arrival of a request that is answered before any await returns
AtOnce(op) == arrived' = arrived + 1 /\ reqs' = reqs /\ last'.op = op
\* the step suspends the handler of slot r at an await
Suspends(r) == reqs'[r] # reqs[r] /\ reqs'[r].pc # "idle"
\* the step answers the request of slot r after a repository call returned
Finishes(r, from, op) ==
    reqs[r].pc = from /\ reqs[r].op = op /\ reqs'[r].pc = "idle" /\ last'.op = op

\* C1: after a successful unlike by U, the stored likes are the likes the
\* request found with U's entry removed and every other entry kept in order.
C1_UnlikeRemovesOwnEntry ==
    [][\A r \in Slots :
          (Finishes(r, "save", "unlike") /\ last'.status = 200
             /\ reqs[r].pid \in DOMAIN posts') =>
          posts'[reqs[r].pid].likes = WithoutUser(reqs[r].seen.likes, reqs[r].user)]_vars

\* C2: with handlers run one at a time, the likes of every stored post hold
\* at most one entry per user id.
C2_AtMostOneLikePerUser ==
    \A p \in DOMAIN posts : \A u \in Users : CountLikes(posts[p].likes, u) <= 1

C2_Witness ==
    /\ last.op = "like" /\ last.status = 400
    /\ last.pid \in DOMAIN posts
    /\ Len(posts[last.pid].likes) >= 2

\* C3: a like by a user who already has an entry answers 400 and changes
\* nothing; a like by a user without an entry answers 200 and persists exactly
\* one entry for the user in front of the entries the request found, in their
\* order (in front of the stored entries when nothing was persisted between
\* its fetch and its persist).
C3_LikeTwiceRefused ==
    [][/\ (AtOnce("like") /\ last'.raised = "none") =>
             /\ last'.pid \in DOMAIN posts
             /\ Liked(posts[last'.pid].likes, last'.user)
             /\ last'.status = 400
             /\ posts' = posts
       /\ \A r \in Slots :
             /\ (Suspends(r) /\ reqs'[r].op = "like") =>
                   /\ reqs'[r].pid \in DOMAIN posts
                   /\ ~Liked(posts[reqs'[r].pid].likes, reqs'[r].user)
                   /\ reqs'[r].seen = posts[reqs'[r].pid]
                   /\ posts' = posts
             /\ (Finishes(r, "save", "like") /\ last'.raised = "none"
                   /\ reqs[r].pid \in DOMAIN posts) =>
                   LET p == reqs[r].pid
                       entry == [user |-> reqs[r].user]
                   IN /\ last'.status = 200
                      /\ posts'[p].likes = <<entry>> \o reqs[r].seen.likes
                      /\ posts[p] = reqs[r].seen =>
                            posts' = [posts EXCEPT ![p].likes = <<entry>> \o posts[p].likes]]_vars

C3_Witness ==
    /\ last.op = "like" /\ last.status = 400
    /\ last.pid \in DOMAIN posts
    /\ Len(posts[last.pid].likes) >= 2
    /\ posts[last.pid].likes[1].user # last.user

\* C4: an unlike by a user without an entry answers 400 and changes nothing,
\* whatever entries of other users the likes hold.
C4_UnlikeWithoutLikeRefused ==
    [][/\ (AtOnce("unlike") /\ last'.raised = "none") =>
             /\ last'.pid \in DOMAIN posts
             /\ ~Liked(posts[last'.pid].likes, last'.user)
             /\ last'.status = 400
             /\ posts' = posts
       /\ \A r \in Slots :
             (Suspends(r) /\ reqs'[r].op = "unlike") =>
                 /\ reqs'[r].pid \in DOMAIN posts
                 /\ Liked(posts[reqs'[r].pid].likes, reqs'[r].user)]_vars

C4_Witness ==
    /\ last.op = "unlike" /\ last.status = 400
    /\ last.pid \in DOMAIN posts
    /\ Len(posts[last.pid].likes) >= 1

\* C5: with handlers run one at a time, an unlike by U that is the next
\* request on the post after a successful like by U succeeds and leaves the
\* likes equal to the likes before the like.
C5_LikeThenUnlikeRestores ==
    (last.op = "unlike" /\ last.follows /\ last.raised = "none") =>
        /\ last.status = 200
        /\ last.pid \in DOMAIN posts
        /\ posts[last.pid].likes = last.pre

C5_Witness ==
    /\ last.op = "unlike" /\ last.follows /\ last.status = 200
    /\ Len(last.pre) >= 1

\* C6: a delete-comment of an existing comment goes on to persist and answers
\* 200 with the comment removed exactly when the acting user owns the post or
\* wrote the comment; otherwise it answers 401 and changes nothing.
C6_DeleteCommentAuthorized ==
    [][\A r \in Slots :
          LET p == reqs[r].pid
              u == reqs[r].user
              cid == reqs[r].cid
              found == reqs[r].seen.comments
              c == CHOOSE x \in {found[i] : i \in 1..Len(found)} : x.id = cid
              allowed == u = reqs[r].seen.user \/ u = c.user
          IN /\ (reqs[r].pc = "user" /\ reqs[r].op = "uncomment" /\ reqs'[r] # reqs[r]
                   /\ cid \in CommentIdsOf(found)
                   /\ ~(reqs'[r].pc = "idle" /\ last'.raised = "other")) =>
                   /\ posts' = posts
                   /\ IF allowed
                      THEN reqs'[r].pc = "save"
                      ELSE reqs'[r].pc = "idle" /\ last'.op = "uncomment" /\ last'.status = 401
             /\ (Finishes(r, "save", "uncomment") /\ last'.raised = "none"
                   /\ p \in DOMAIN posts) =>
                   /\ last'.status = 200
                   /\ cid \in CommentIdsOf(found)
                   /\ allowed
                   /\ cid \notin CommentIdsOf(posts'[p].comments)]_vars

C6_Witness ==
    /\ last.op = "uncomment" /\ last.status = 401
    /\ last.pid \in DOMAIN posts
    /\ \E i \in 1..Len(posts[last.pid].comments) :
           /\ posts[last.pid].comments[i].id = last.cid
           /\ posts[last.pid].comments[i].user # last.user
    /\ posts[last.pid].user # last.user

\* C7: no step reorders the comments of a post; add-comment persists one new
\* comment in front of the comments it found, a successful delete-comment
\* persists the comments it found without exactly the requested one, the
\* others in their order, and a delete-comment of an absent comment id
\* answers 404 and changes nothing.
C7_CommentsKeepOrder ==
    [][/\ \A p \in DOMAIN posts \cap DOMAIN posts' :
             Among(posts[p].comments, CommentIdsOf(posts'[p].comments))
                = Among(posts'[p].comments, CommentIdsOf(posts[p].comments))
       /\ \A r \in Slots :
             LET p == reqs[r].pid
                 cid == reqs[r].cid
                 found == reqs[r].seen.comments
             IN /\ (Finishes(r, "save", "comment") /\ last'.status = 200
                      /\ p \in DOMAIN posts) =>
                      LET new == posts'[p].comments
                      IN /\ Len(new) = Len(found) + 1
                         /\ Tail(new) = found
                         /\ new[1].id = last'.cid
                         /\ new[1].user = reqs[r].user
                         /\ last'.cid \notin CommentIdsOf(found)
                         /\ last'.cid \notin CommentIdsOf(posts[p].comments)
                /\ (Finishes(r, "save", "uncomment") /\ last'.status = 200
                      /\ p \in DOMAIN posts) =>
                      /\ cid \in CommentIdsOf(found)
                      /\ Len(posts'[p].comments) = Len(found) - 1
                      /\ posts'[p].comments = WithoutId(found, cid)
                      /\ posts[p] = reqs[r].seen =>
                            posts' = [posts EXCEPT ![p].comments = WithoutId(@, cid)]
                /\ (reqs[r].pc = "user" /\ reqs[r].op = "uncomment" /\ reqs'[r] # reqs[r]
                      /\ cid \notin CommentIdsOf(found)
                      /\ ~(reqs'[r].pc = "idle" /\ last'.raised = "other")) =>
                      /\ reqs'[r].pc = "idle"
                      /\ last'.op = "uncomment" /\ last'.status = 404
                      /\ posts' = posts]_vars

C7_Witness ==
    /\ last.op = "uncomment" /\ last.status = 200
    /\ last.pid \in DOMAIN posts
    /\ Len(posts[last.pid].comments) = 2
    /\ posts[last.pid].comments[1].id > last.cid
    /\ last.cid > posts[last.pid].comments[2].id

\* C8: only the remove of a delete-post by the owner takes a post out of the
\* store; a delete-post by anyone else answers 401 and changes nothing; a
\* removed post stays absent, is in no listing and is not found by a fetch.
C8_OnlyOwnerDeletes ==
    [][/\ \A p \in DOMAIN posts \ DOMAIN posts' :
             /\ \E r \in Slots :
                   /\ Finishes(r, "remove", "delete")
                   /\ reqs[r].pid = p
                   /\ reqs[r].user = posts[p].user
                   /\ last'.status = 200
             /\ posts' = [q \in DOMAIN posts \ {p} |-> posts[q]]
       /\ (AtOnce("delete") /\ last'.raised = "none") =>
             /\ last'.pid \in DOMAIN posts
             /\ last'.user # posts[last'.pid].user
             /\ last'.status = 401
             /\ posts' = posts
       /\ \A r \in Slots :
             /\ (Suspends(r) /\ reqs'[r].pc = "remove") =>
                   /\ reqs'[r].pid \in DOMAIN posts
                   /\ reqs'[r].user = posts[reqs'[r].pid].user
             /\ (Finishes(r, "remove", "delete") /\ last'.status = 200) =>
                   reqs[r].pid \notin DOMAIN posts'
             /\ (Suspends(r) /\ reqs[r].pc = "idle" /\ reqs'[r].pid \notin DOMAIN posts) =>
                   reqs'[r].seen = NoDoc
       /\ \A p \in DOMAIN posts' \ DOMAIN posts :
             /\ p \notin removed
             /\ \E r \in Slots :
                   /\ Finishes(r, "save", "create")
                   /\ reqs[r].pid = p
                   /\ last'.status = 200
       /\ \A p \in DOMAIN posts \ DOMAIN posts' : p \in removed'
       /\ \A p \in removed : p \in removed' /\ p \notin DOMAIN posts'
       /\ (last'.op \in {"list", "myposts"} /\ last'.status = 200) =>
             \A i \in 1..Len(last'.result) : last'.result[i] \in DOMAIN posts'
       /\ \A op \in {"like", "unlike", "comment", "uncomment", "delete"} :
             (AtOnce(op) /\ last'.pid \in removed) =>
             last'.status \in {NoResponse, 400, 500}]_vars

C8_Witness ==
    /\ last.op = "list" /\ last.status = 200
    /\ removed # {}
    /\ \A p \in removed : p \notin DOMAIN posts

\* C9: every handled request is answered, and a fault that is not of the
\* malformed-identifier shape is answered with 500.
C9_EveryFaultAnswered ==
    last.op # "none" =>
        /\ last.status # NoResponse
        /\ last.raised = "other" => last.status = 500

TypeOK ==
    /\ DOMAIN posts \subseteq PostIds
    /\ {order[i] : i \in 1..Len(order)} = DOMAIN posts
    /\ Len(order) = Cardinality(DOMAIN posts)
    /\ removed \subseteq PostIds
    /\ nextPid \in 1..(MaxPosts + 1)
    /\ nextCid \in 1..(MaxComments + 1)
====
